---- MODULE Spec2Model ----
(***************************************************************************)
(* Model of the visual-diff engine (services/imageUtils.ts, compareImages) *)
(* and of the VisualTester component that drives it.                       *)
(*                                                                         *)
(* JavaScript numbers are IEEE-754 doubles.  The doubles the engine and    *)
(* the region editor compute (luma, fade, scale, scaled coordinate) lie in *)
(* [0, 256) and are multiples of 2^-56, so a                               *)
(* double is modelled exactly as the natural number value * 2^56, held in  *)
(* three limbs <<l0, l1, l2>> of 22 bits (value = l0 + l1*2^22 + l2*2^44), *)
(* and every arithmetic operation rounds its exact result to 53            *)
(* significant bits, ties to even, as the hardware does.                   *)
(***************************************************************************)
EXTENDS Integers, Sequences, FiniteSets, TLC

----------------------------------------------------------------------------
(* IEEE-754 double arithmetic on the fixed-point representation            *)

Base == 2^22

RECURSIVE Log2(_)
Log2(n) == IF n < 2 THEN 0 ELSE 1 + Log2(n \div 2)

\* propagate carries (or borrows) so that every limb is in 0..Base-1
Carry(t) ==
  LET l0 == t[1] % Base
      c0 == t[1] \div Base
      s1 == t[2] + c0
      l1 == s1 % Base
      c1 == s1 \div Base
  IN  <<l0, l1, t[3] + c1>>

\* round an exact value to the nearest double (53 significant bits, ties
\* to even); the bits dropped are the low s = (top bit) - 52 bits of limb 0
RoundToDouble(t) ==
  LET s    == IF t[3] < 2^9 THEN 0 ELSE Log2(t[3]) - 8
      q    == 2^s
      rem  == t[1] % q
      half == q \div 2
      odd  == (t[1] \div q) % 2 = 1
      up   == s > 0 /\ (rem > half \/ (rem = half /\ odd))
  IN  Carry(<<t[1] - rem + (IF up THEN q ELSE 0), t[2], t[3]>>)

\* the double of an integer 0..255
FromInt(k) == <<0, 0, k * 2^12>>

\* k * d for an integer k in 0..255 and a double d
MulInt(k, d) == RoundToDouble(Carry(<<k * d[1], k * d[2], k * d[3]>>))

\* a + b
AddDbl(a, b) == RoundToDouble(Carry(<<a[1] + b[1], a[2] + b[2], a[3] + b[3]>>))

\* a <= b
LeqDbl(a, b) ==
  \/ a[3] < b[3]
  \/ a[3] = b[3] /\ a[2] < b[2]
  \/ a[3] = b[3] /\ a[2] = b[2] /\ a[1] <= b[1]

\* Math.abs(a - b): the rounded difference has the same magnitude either way
AbsSubDbl(a, b) ==
  LET hi == IF LeqDbl(a, b) THEN b ELSE a
      lo == IF LeqDbl(a, b) THEN a ELSE b
  IN  RoundToDouble(Carry(<<hi[1] - lo[1], hi[2] - lo[2], hi[3] - lo[3]>>))

\* d > k for an integer k in 0..255
GtInt(d, k) == ~LeqDbl(d, FromInt(k))

\* storing a double in a Uint8ClampedArray: clamp to [0, 255], round to the
\* nearest integer, ties to even
ToUint8Clamped(d) ==
  LET ip     == d[3] \div 2^12
      fracHi == d[3] % 2^12
      above  == fracHi > 2^11 \/ (fracHi = 2^11 /\ (d[2] > 0 \/ d[1] > 0))
      tie    == fracHi = 2^11 /\ d[2] = 0 /\ d[1] = 0
  IN  IF ip >= 255 THEN 255
      ELSE IF above \/ (tie /\ ip % 2 = 1) THEN ip + 1
      ELSE ip

\* the double literals of imageUtils.ts, as value * 2^56
LumaR == <<67108, 2952790, 1224>>      \* 0.299 = 0x1.322d0e5604189p-2
LumaG == <<33552, 1476395, 2404>>      \* 0.587 = 0x1.2c8b439581062p-1
LumaB == <<4093641, 3959422, 466>>     \* 0.114 = 0x1.d2f1a9fbe76c9p-4
fade == <<1677722, 2516582, 409>>      \* 0.1   = 0x1.999999999999ap-4

\* 0.299 * r + 0.587 * g + 0.114 * b, evaluated left to right
Luma(r, g, b) ==
  AddDbl(AddDbl(MulInt(r, LumaR), MulInt(g, LumaG)), MulInt(b, LumaB))

\* n / d for integers n, d in 1..255 with n / d >= 1/16: long division of
\* n * 2^56 by d, then rounding of the exact quotient (the remainder r0 is
\* the part of the quotient below the last limb)
DivInt(n, d) ==
  LET q2   == (n * 2^12) \div d
      r2   == (n * 2^12) % d
      q1   == (r2 * Base) \div d
      r1   == (r2 * Base) % d
      q0   == (r1 * Base) \div d
      r0   == (r1 * Base) % d
      s    == IF q2 < 2^9 THEN 0 ELSE Log2(q2) - 8
      q    == 2^s
      rem  == q0 % q
      half == q \div 2
      odd  == (q0 \div q) % 2 = 1
      up   == IF s = 0
              THEN 2 * r0 > d \/ (2 * r0 = d /\ odd)
              ELSE rem > half \/ (rem = half /\ (r0 > 0 \/ odd))
  IN  Carry(<<q0 - rem + (IF up THEN q ELSE 0), q1, q2>>)

\* the integer part of a double >= 0
MathRoundDown(d) == d[3] \div 2^12

\* Math.round of a double >= 0: the nearest integer, a half rounds up
MathRound(d) ==
  IF d[3] % 2^12 >= 2^11 THEN d[3] \div 2^12 + 1 ELSE d[3] \div 2^12

----------------------------------------------------------------------------
(* services/imageUtils.ts: compareImages                                   *)

Methods == {"PIXEL", "STRICT", "LUMINANCE"}

\* what a read past the end of a typed array yields (undefined); every
\* arithmetic on it is NaN and every comparison with NaN is false
Undefined == -1

\* the byte at index i (0-based) of an ImageData buffer
At(data, i) == IF i < Len(data) THEN data[i + 1] ELSE Undefined

\* some channel of the pixel was read past the end of its buffer
HasUndefined(p) == \E k \in 1..4 : p[k] = Undefined

\* InsideRegion with closed upper bounds (<= for <)
InsideRegionClosed(region, x, y) ==
  /\ x >= region.x
  /\ x <= region.x + region.width
  /\ y >= region.y
  /\ y <= region.y + region.height

\* the containment test of the region loop
InsideRegion(region, x, y) ==
  /\ x >= region.x
  /\ x < region.x + region.width
  /\ y >= region.y
  /\ y < region.y + region.height

\* let isIgnored = false; for (const region of ignoreRegions) ... break
isIgnored(regions, x, y) ==
  \E k \in 1..Len(regions) : InsideRegion(regions[k], x, y)

\* const x = pixelIndex % width; const y = Math.floor(pixelIndex / width)
PixelX(pixelIndex, width) == pixelIndex % width
PixelY(pixelIndex, width) == pixelIndex \div width

\* SqrtGt with >= for >
SqrtGe(s, k) == s >= k * k

\* Math.sqrt is correctly rounded and monotone and sqrt(k*k) = k exactly,
\* so for the integer sum of squares s: Math.sqrt(s) > k iff s > k*k
SqrtGt(s, k) == s > k * k

Sq(d) == d * d

\* isDifferent with the luma criterion for every method
isDifferentByLuma(mth, p1, p2) ==
  GtInt(AbsSubDbl(Luma(p1[1], p1[2], p1[3]), Luma(p2[1], p2[2], p2[3])), 10)

\* isDifferent with === for !== in the STRICT branch
isDifferentInverted(mth, p1, p2) ==
  IF mth = "STRICT"
  THEN p1[1] = p2[1] \/ p1[2] = p2[2] \/ p1[3] = p2[3] \/ p1[4] = p2[4]
  ELSE IF mth = "LUMINANCE"
  THEN GtInt(AbsSubDbl(Luma(p1[1], p1[2], p1[3]), Luma(p2[1], p2[2], p2[3])), 10)
  ELSE SqrtGt(Sq(p1[1] - p2[1]) + Sq(p1[2] - p2[2]) + Sq(p1[3] - p2[3])
              + Sq(p1[4] - p2[4]), 10)

\* isDifferent with the alpha comparison missing from the STRICT branch
isDifferentNoAlpha(mth, p1, p2) ==
  IF mth = "STRICT"
  THEN p1[1] # p2[1] \/ p1[2] # p2[2] \/ p1[3] # p2[3]
  ELSE IF mth = "LUMINANCE"
  THEN GtInt(AbsSubDbl(Luma(p1[1], p1[2], p1[3]), Luma(p2[1], p2[2], p2[3])), 10)
  ELSE SqrtGt(Sq(p1[1] - p2[1]) + Sq(p1[2] - p2[2]) + Sq(p1[3] - p2[3])
              + Sq(p1[4] - p2[4]), 10)

\* the method dispatch that sets isDifferent; the candidate pixel p2 may
\* hold undefined channels, the baseline pixel p1 never does
isDifferent(mth, p1, p2) ==
  IF mth = "STRICT"
  THEN p1[1] # p2[1] \/ p1[2] # p2[2] \/ p1[3] # p2[3] \/ p1[4] # p2[4]
  ELSE IF mth = "LUMINANCE"
  THEN /\ \A k \in 1..3 : p2[k] # Undefined
       /\ GtInt(AbsSubDbl(Luma(p1[1], p1[2], p1[3]), Luma(p2[1], p2[2], p2[3])), 10)
  ELSE /\ ~HasUndefined(p2)
       /\ SqrtGt(Sq(p1[1] - p2[1]) + Sq(p1[2] - p2[2]) + Sq(p1[3] - p2[3])
                 + Sq(p1[4] - p2[4]), 10)

\* the four bytes of the pixel that starts at byte index i
PixelAt(data, i) == <<At(data, i), At(data, i + 1), At(data, i + 2), At(data, i + 3)>>

\* the ignored pixel painted like a differing one
GrayPixelAsRed(p1) == <<255, 0, 0, 255>>

\* the ignored pixel with the red channel taken for the luma
GrayPixelRedOnly(p1) == <<p1[1], p1[1], p1[1], 255>>

\* ignored pixel: baseline luma replicated, opaque
GrayPixel(p1) ==
  LET gray == ToUint8Clamped(Luma(p1[1], p1[2], p1[3]))
  IN  <<gray, gray, gray, 255>>

\* differing pixel: opaque red
RedPixel == <<255, 0, 0, 255>>

\* 255 * (1 - fade)
FadeWhite == MulInt(255, AbsSubDbl(FromInt(1), fade))

\* c * fade + 255 * (1 - fade)
FadeChannel(c) == ToUint8Clamped(AddDbl(MulInt(c, fade), FadeWhite))

\* matching pixel: baseline faded toward white, opaque
FadedPixel(p1) == <<FadeChannel(p1[1]), FadeChannel(p1[2]), FadeChannel(p1[3]), 255>>

\* diffData[i..i+3] = px
WritePixel(diffData, i, px) ==
  [diffData EXCEPT ![i + 1] = px[1], ![i + 2] = px[2], ![i + 3] = px[3], ![i + 4] = px[4]]

\* the body of the pixel loop from byte index i on; st = [diffData, diffPixels]
RECURSIVE PixelLoop(_, _, _, _, _, _)
PixelLoop(img1, img2, regions, mth, i, st) ==
  IF i >= img1.width * img1.height * 4 THEN st
  ELSE
    LET pixelIndex == i \div 4
        x  == PixelX(pixelIndex, img1.width)
        y  == PixelY(pixelIndex, img1.width)
        p1 == PixelAt(img1.data, i)
        p2 == PixelAt(img2.data, i)
        next ==
          IF isIgnored(regions, x, y)
          THEN [diffData |-> WritePixel(st.diffData, i, GrayPixel(p1)),
                diffPixels |-> st.diffPixels]
          ELSE IF isDifferent(mth, p1, p2)
          THEN [diffData |-> WritePixel(st.diffData, i, RedPixel),
                diffPixels |-> st.diffPixels + 1]
          ELSE [diffData |-> WritePixel(st.diffData, i, FadedPixel(p1)),
                diffPixels |-> st.diffPixels]
    IN  PixelLoop(img1, img2, regions, mth, i + 4, next)

\* Percentage without the factor 100
PercentageUnscaled(diffPixels, totalPixels) == [num |-> diffPixels, den |-> totalPixels]

\* (diffPixels / totalPixels) * 100, kept as the exact fraction num / den
Percentage(diffPixels, totalPixels) == [num |-> diffPixels * 100, den |-> totalPixels]

PctLeq(a, b) == a.num * b.den <= b.num * a.den
PctEq(a, b) == a.num * b.den = b.num * a.den

\* compareImages dividing by the number of non-ignored pixels
compareImagesOverCompared(img1, img2, regions, mth) ==
  LET width  == img1.width
      height == img1.height
      length == width * height * 4
      st == PixelLoop(img1, img2, regions, mth, 0,
                      [diffData |-> [k \in 1..length |-> 0], diffPixels |-> 0])
      compared == {p \in 0..(width * height - 1) :
                     ~isIgnored(regions, PixelX(p, width), PixelY(p, width))}
  IN  [diffPercentage |-> Percentage(st.diffPixels, Cardinality(compared)),
       diffImageData  |-> [width |-> width, height |-> height, data |-> st.diffData]]

\* compareImages dividing by the buffer length instead of the pixel count
compareImagesOverBytes(img1, img2, regions, mth) ==
  LET width  == img1.width
      height == img1.height
      length == width * height * 4
      st == PixelLoop(img1, img2, regions, mth, 0,
                      [diffData |-> [k \in 1..length |-> 0], diffPixels |-> 0])
  IN  [diffPercentage |-> Percentage(st.diffPixels, length),
       diffImageData  |-> [width |-> width, height |-> height, data |-> st.diffData]]

compareImages(img1, img2, regions, mth) ==
  LET width  == img1.width
      height == img1.height
      length == width * height * 4
      st == PixelLoop(img1, img2, regions, mth, 0,
                      [diffData |-> [k \in 1..length |-> 0], diffPixels |-> 0])
  IN  [diffPercentage |-> Percentage(st.diffPixels, width * height),
       diffImageData  |-> [width |-> width, height |-> height, data |-> st.diffData]]

----------------------------------------------------------------------------
(* Inputs of the comparison: bounded sets of images, regions and methods   *)

MaxWidth == 2
MaxHeight == 2
MaxPixels == 4
MaxRegions == 2
MaxCalls == 2

black == <<0, 0, 0, 255>>
white == <<255, 255, 255, 255>>

\* baseline/candidate pixel pairs at and around every classification boundary
PixelPairs ==
  { <<black, black>>,
    <<white, white>>,
    <<<<10, 10, 205, 128>>, <<10, 10, 205, 128>>>>,
    <<black, white>>,
    <<white, black>>,
    <<black, <<6, 8, 0, 255>>>>,                       \* distance exactly 10
    <<black, <<10, 1, 0, 255>>>>,                      \* distance sqrt(101)
    <<black, <<0, 0, 0, 245>>>>,                       \* alpha only, distance 10
    <<black, <<0, 0, 0, 244>>>>,                       \* alpha only, distance 11
    <<black, <<10, 10, 10, 255>>>>,                    \* luma delta exactly 10
    <<<<0, 0, 195, 255>>, <<10, 10, 205, 255>>>>,      \* luma delta exactly 10
    <<black, <<0, 17, 0, 255>>>>,                      \* luma delta 9.979
    <<black, <<0, 18, 0, 255>>>>,                      \* luma delta 10.566
    <<<<120, 120, 120, 255>>, <<121, 119, 120, 255>>>> }

\* the pairs used for the pixels of images of more than one pixel
CoarsePairs == { <<black, black>>, <<black, white>> }

Sizes == {sz \in (1..MaxWidth) \X (1..MaxHeight) : sz[1] * sz[2] <= MaxPixels}

RECURSIVE Flatten(_)
Flatten(pixels) ==
  IF pixels = <<>> THEN <<>> ELSE Head(pixels) \o Flatten(Tail(pixels))

\* the ImageData of width w and height h whose pixels are pixels[1..w*h]
MakeImage(w, h, pixels) == [width |-> w, height |-> h, data |-> Flatten(pixels)]

\* all baseline/candidate pairs of equal size
ImagePairs ==
  UNION { { <<MakeImage(sz[1], sz[2], [k \in 1..(sz[1] * sz[2]) |-> f[k][1]]),
              MakeImage(sz[1], sz[2], [k \in 1..(sz[1] * sz[2]) |-> f[k][2]])>> :
            f \in [1..(sz[1] * sz[2]) ->
                     IF sz[1] * sz[2] = 1 THEN PixelPairs ELSE CoarsePairs] } :
          sz \in Sizes }

Region(x, y, w, h) == [x |-> x, y |-> y, width |-> w, height |-> h]

\* one pixel, the left column and the bottom row of a 2 x 2 image; the last
\* two overlap, and on smaller images some lie outside the image
RegionChoices == { Region(1, 0, 1, 1), Region(0, 0, 1, 2), Region(0, 1, 2, 1) }

RegionLists == UNION { [1..n -> RegionChoices] : n \in 0..MaxRegions }

NoResult == [none |-> TRUE]

----------------------------------------------------------------------------
(* VisualTester component: inputs and helpers                              *)

Null == [null |-> TRUE]

\* the size of the sheet images: one pixel of a sheet is 5 percent of it
SheetWidth == 4
SheetHeight == 5

\* decoded uploads (opaque pixels, so the canvas round trip is exact)
ImgBlack == MakeImage(1, 1, <<black>>)
ImgHalf  == MakeImage(2, 1, <<black, white>>)

\* the files the sessions upload as baseline and as candidate
BaseUploads == {ImgHalf}
CompareUploads == {ImgBlack}

\* uploads of other shapes: a column of two pixels, a black sheet and the
\* same sheet with its first pixel white
ImgColumn == MakeImage(1, 2, <<white, black>>)
ImgSheet ==
  MakeImage(SheetWidth, SheetHeight, [k \in 1..(SheetWidth * SheetHeight) |-> black])
ImgSheetDot ==
  MakeImage(SheetWidth, SheetHeight,
            [k \in 1..(SheetWidth * SheetHeight) |-> IF k = 1 THEN white ELSE black])

\* the methods the sessions select
MethodChoices == {"PIXEL", "STRICT"}

\* the slider value in hundredths of a percent (min 0, max 5, step 0.01)
InitialThreshold == 10
ThresholdChoices == {0, InitialThreshold}

\* the slider at its maximum, 5 percent
MaxThreshold == 500

Max(a, b) == IF a >= b THEN a ELSE b

\* DrawImage that returns the image at its own size
DrawImageNatural(img, width, height) == img

\* ctx.drawImage(img, 0, 0, width, height); ctx.getImageData(0, 0, width, height):
\* the image stretched over the canvas (destination pixel (x, y) samples the
\* source pixel under it)
DrawImage(img, width, height) ==
  MakeImage(width, height,
    [k \in 1..(width * height) |->
       LET x  == (k - 1) % width
           y  == (k - 1) \div width
           sx == (x * img.width) \div width
           sy == (y * img.height) \div height
       IN  PixelAt(img.data, (sy * img.width + sx) * 4)])

\* imageDataToDataUrl: a PNG data URL, lossless, so the URL determines the
\* pixels and is modelled by them
imageDataToDataUrl(imageData) == imageData

\* isPassedOf with < for <=
isPassedStrict(diffPercentage, thresholdValue) ==
  diffPercentage.num * 100 < thresholdValue * diffPercentage.den

\* const isPassed = diffPercentage <= threshold, threshold in hundredths
isPassedOf(diffPercentage, thresholdValue) ==
  diffPercentage.num * 100 <= thresholdValue * diffPercentage.den

Min(a, b) == IF a <= b THEN a ELSE b
Abs(n) == IF n < 0 THEN -n ELSE n

\* an image of one colour
BlankImage(w, h, px) == MakeImage(w, h, [k \in 1..(w * h) |-> px])

\* the <img> of the region editor as the handlers read it: the rendered size
\* (width, height; getBoundingClientRect has the same size, the element is
\* not transformed) and the size of the decoded baseline (naturalWidth,
\* naturalHeight).  The rendered size is decided by the page layout.
ImgElement(naturalWidth, naturalHeight, width, height) ==
  [naturalWidth |-> naturalWidth, naturalHeight |-> naturalHeight,
   width |-> width, height |-> height]

\* the layouts of the editor sessions: natural size, scaled down with
\* different factors on the two axes, and stretched
EditorLayouts ==
  {ImgElement(6, 6, 6, 6), ImgElement(9, 7, 6, 5), ImgElement(1, 1, 12, 12)}

\* the layouts of the uploads of the component sessions
UploadLayouts == {ImgElement(1, 1, 6, 6), ImgElement(2, 1, 12, 6)}

\* the elements an image can be rendered as
LayoutsOf(img) ==
  {el \in EditorLayouts \cup UploadLayouts :
     el.naturalWidth = img.width /\ el.naturalHeight = img.height}

\* pointer positions relative to the top left corner of the element
\* (e.clientX - rect.left, e.clientY - rect.top), some of them outside it
MouseXs(el) == {-1, 0, 1, 5, 6, el.width, el.width + 1}
MouseYs(el) == {-1, 0, 5, el.height}

\* the pointer positions of the component sessions; the last one is outside
\* the element, above its right edge
ClickPoints == {<<0, 0>>, <<6, 6>>, <<13, -1>>}

\* a draft rectangle narrower or lower than this is discarded
MinDragSize == 5

\* most regions a session draws
MaxDrawn == 2

\* most items the dashboard receives in a session
MaxHistory == 1

\* the HistoryItem of a run; id, timestamp and name (a random UUID, the
\* clock and the file name) are left out
HistoryItem(diffPercentage, isPassed) ==
  [type |-> "VISUAL", diffPercentage |-> diffPercentage, passed |-> isPassed]

\* an upload the browser cannot decode as an image: FileReader still yields
\* its data URL, an Image given that URL fires error and never load
Undecodable == [undecodable |-> TRUE]

\* img.onload fires
Loads(img) == img # Undecodable

VARIABLES
  img1Data,      \* compareImages argument: baseline buffer
  img2Data,      \* compareImages argument: candidate buffer
  regionList,    \* compareImages argument: ignoreRegions
  cmpMethod,     \* compareImages argument: method
  result,        \* the DiffCalcResult of the last invocation
  calls,         \* number of invocations made
  baseImage,     \* useState: baseline upload or Null
  compareImage,  \* useState: candidate upload or Null
  diffResult,    \* useState: VisualDiffResult or Null
  isProcessing,  \* useState
  threshold,     \* useState, hundredths of a percent
  method,        \* useState
  ignoreRegions, \* useState
  run,           \* the values captured by the runVisualTest call that is
                 \* awaiting its images, or Null
  isEditorOpen,  \* useState
  editorImageRef,\* useRef: the <img> of the open editor, or Null
  editorRect,    \* useState: the draft rectangle in display pixels, or Null
  isDrawing,     \* useState
  startPos,      \* useState: where the drag started, or Null
  history        \* App.tsx useState: the items reported through
                 \* onTestComplete, newest first

cmpVars == <<img1Data, img2Data, regionList, cmpMethod, result, calls>>
editorVars == <<isEditorOpen, editorImageRef, editorRect, isDrawing, startPos>>
drawVars == <<editorRect, isDrawing, startPos>>
uiVars == <<baseImage, compareImage, diffResult, isProcessing, threshold,
            method, ignoreRegions, run, isEditorOpen, editorImageRef,
            editorRect, isDrawing, startPos, history>>
vars == <<img1Data, img2Data, regionList, cmpMethod, result, calls,
          baseImage, compareImage, diffResult, isProcessing, threshold,
          method, ignoreRegions, run, isEditorOpen, editorImageRef,
          editorRect, isDrawing, startPos, history>>

\* the component after its first render
InitUI ==
  /\ baseImage = Null
  /\ compareImage = Null
  /\ diffResult = Null
  /\ isProcessing = FALSE
  /\ threshold = InitialThreshold
  /\ method = "PIXEL"
  /\ ignoreRegions = <<>>
  /\ run = Null
  /\ isEditorOpen = FALSE
  /\ editorImageRef = Null
  /\ editorRect = Null
  /\ isDrawing = FALSE
  /\ startPos = Null
  /\ history = <<>>

----------------------------------------------------------------------------
(* SpecCompare: compareImages applied to every input of the bounded sets   *)

InitCompare ==
  /\ \E pair \in ImagePairs : img1Data = pair[1] /\ img2Data = pair[2]
  /\ regionList \in RegionLists
  /\ cmpMethod \in Methods
  /\ result = NoResult
  /\ calls = 0
  /\ InitUI

\* Compare with the diff written into the baseline buffer
CompareInPlace ==
  /\ calls < MaxCalls
  /\ result' = compareImages(img1Data, img2Data, regionList, cmpMethod)
  /\ img1Data' = result'.diffImageData
  /\ calls' = calls + 1
  /\ UNCHANGED <<img2Data, regionList, cmpMethod>>
  /\ UNCHANGED uiVars

\* one invocation of compareImages on the current arguments
Compare ==
  /\ calls < MaxCalls
  /\ result' = compareImages(img1Data, img2Data, regionList, cmpMethod)
  /\ calls' = calls + 1
  /\ UNCHANGED <<img1Data, img2Data, regionList, cmpMethod>>
  /\ UNCHANGED uiVars

NextCompare == Compare

SpecCompare == InitCompare /\ [][NextCompare]_vars

----------------------------------------------------------------------------
(* SpecMismatch: compareImages applied to buffers of different size        *)

\* baseline/candidate pairs whose width or height differ, each of one colour
MismatchedPairs ==
  { <<BlankImage(sz[1][1], sz[1][2], c[1]), BlankImage(sz[2][1], sz[2][2], c[2])>> :
      sz \in {q \in Sizes \X Sizes : q[1] # q[2]},
      c \in {black, white} \X {black, white} }

InitMismatch ==
  /\ \E pair \in MismatchedPairs : img1Data = pair[1] /\ img2Data = pair[2]
  /\ regionList \in RegionLists
  /\ cmpMethod \in Methods
  /\ result = NoResult
  /\ calls = 0
  /\ InitUI

NextMismatch == Compare

SpecMismatch == InitMismatch /\ [][NextMismatch]_vars

----------------------------------------------------------------------------
(* Spec: the VisualTester component                                        *)

Init ==
  /\ img1Data = ImgBlack
  /\ img2Data = ImgBlack
  /\ regionList = <<>>
  /\ cmpMethod = "PIXEL"
  /\ result = NoResult
  /\ calls = 0
  /\ InitUI

\* reader.onload that leaves the region list alone for both upload types
ReaderOnloadKeepsRegions(type, img) ==
  /\ IF type = "base"
     THEN /\ baseImage' = img
          /\ UNCHANGED <<compareImage, ignoreRegions>>
     ELSE /\ compareImage' = img
          /\ UNCHANGED <<baseImage, ignoreRegions>>
  /\ diffResult' = Null
  /\ IF type = "base" /\ isEditorOpen
     THEN editorImageRef' \in LayoutsOf(img)
     ELSE UNCHANGED editorImageRef
  /\ UNCHANGED <<isProcessing, threshold, method, run, isEditorOpen>>
  /\ UNCHANGED drawVars
  /\ UNCHANGED history
  /\ UNCHANGED cmpVars

\* reader.onload of handleImageUpload(e, type) for the chosen file
ReaderOnload(type, img) ==
  /\ IF type = "base"
     THEN /\ baseImage' = img
          /\ ignoreRegions' = <<>>
          /\ UNCHANGED compareImage
     ELSE /\ compareImage' = img
          /\ UNCHANGED <<baseImage, ignoreRegions>>
  /\ diffResult' = Null
  /\ IF type = "base" /\ isEditorOpen
     THEN editorImageRef' \in LayoutsOf(img)
     ELSE UNCHANGED editorImageRef
  /\ UNCHANGED <<isProcessing, threshold, method, run, isEditorOpen>>
  /\ UNCHANGED drawVars
  /\ UNCHANGED history
  /\ UNCHANGED cmpVars

\* onChange of the threshold slider
SetThreshold(t) ==
  /\ threshold' = t
  /\ UNCHANGED <<baseImage, compareImage, diffResult, isProcessing, method,
                 ignoreRegions, run>>
  /\ UNCHANGED editorVars
  /\ UNCHANGED history
  /\ UNCHANGED cmpVars

\* onChange of the method select
SetMethod(m) ==
  /\ method' = m
  /\ UNCHANGED <<baseImage, compareImage, diffResult, isProcessing, threshold,
                 ignoreRegions, run>>
  /\ UNCHANGED editorVars
  /\ UNCHANGED history
  /\ UNCHANGED cmpVars

\* the "reset all" button of the region editor: setIgnoreRegions([])
ClearRegions ==
  /\ isEditorOpen
  /\ ignoreRegions' = <<>>
  /\ UNCHANGED <<baseImage, compareImage, diffResult, isProcessing, threshold,
                 method, run>>
  /\ UNCHANGED editorVars
  /\ UNCHANGED history
  /\ UNCHANGED cmpVars

\* the "ignore regions" button, shown once a baseline is loaded:
\* setIsEditorOpen(true); the modal mounts the <img> of the baseline
OpenEditor ==
  /\ baseImage # Null
  /\ ~isEditorOpen
  /\ isEditorOpen' = TRUE
  /\ editorImageRef' \in LayoutsOf(baseImage)
  /\ UNCHANGED <<baseImage, compareImage, diffResult, isProcessing, threshold,
                 method, ignoreRegions, run>>
  /\ UNCHANGED drawVars
  /\ UNCHANGED history
  /\ UNCHANGED cmpVars

\* the "done" button of the editor: setIsEditorOpen(false); the modal and
\* its <img> unmount, the drawing state is left as it is
CloseEditor ==
  /\ isEditorOpen
  /\ isEditorOpen' = FALSE
  /\ editorImageRef' = Null
  /\ UNCHANGED <<baseImage, compareImage, diffResult, isProcessing, threshold,
                 method, ignoreRegions, run>>
  /\ UNCHANGED drawVars
  /\ UNCHANGED history
  /\ UNCHANGED cmpVars

\* handleMouseDown with the pointer at (x, y) relative to the element
handleMouseDown(x, y) ==
  /\ isEditorOpen
  /\ IF editorImageRef = Null
     THEN UNCHANGED drawVars
     ELSE IF x < 0 \/ x > editorImageRef.width \/ y < 0 \/ y > editorImageRef.height
     THEN UNCHANGED drawVars
     ELSE /\ startPos' = [x |-> x, y |-> y]
          /\ isDrawing' = TRUE
          /\ editorRect' = [x |-> x, y |-> y, width |-> 0, height |-> 0]
  /\ UNCHANGED <<baseImage, compareImage, diffResult, isProcessing, threshold,
                 method, ignoreRegions, run, isEditorOpen, editorImageRef>>
  /\ UNCHANGED history
  /\ UNCHANGED cmpVars

\* handleMouseMove that takes the pointer position as it is
handleMouseMoveUnclamped(x, y) ==
  /\ isEditorOpen
  /\ IF ~isDrawing \/ startPos = Null \/ editorImageRef = Null
     THEN UNCHANGED editorRect
     ELSE editorRect' = [x      |-> Min(x, startPos.x),
                         y      |-> Min(y, startPos.y),
                         width  |-> Abs(x - startPos.x),
                         height |-> Abs(y - startPos.y)]
  /\ UNCHANGED <<baseImage, compareImage, diffResult, isProcessing, threshold,
                 method, ignoreRegions, run, isEditorOpen, editorImageRef,
                 isDrawing, startPos>>
  /\ UNCHANGED history
  /\ UNCHANGED cmpVars

\* handleMouseMove with the pointer at (x, y) relative to the element
handleMouseMove(x, y) ==
  /\ isEditorOpen
  /\ IF ~isDrawing \/ startPos = Null \/ editorImageRef = Null
     THEN UNCHANGED editorRect
     ELSE LET currentX == Max(0, Min(x, editorImageRef.width))
              currentY == Max(0, Min(y, editorImageRef.height))
          IN  editorRect' = [x      |-> Min(currentX, startPos.x),
                             y      |-> Min(currentY, startPos.y),
                             width  |-> Abs(currentX - startPos.x),
                             height |-> Abs(currentY - startPos.y)]
  /\ UNCHANGED <<baseImage, compareImage, diffResult, isProcessing, threshold,
                 method, ignoreRegions, run, isEditorOpen, editorImageRef,
                 isDrawing, startPos>>
  /\ UNCHANGED history
  /\ UNCHANGED cmpVars

\* the region of the baseline a draft rectangle stands for
MapToIntrinsic(rect, el) ==
  LET displayWidth    == el.width
      displayHeight   == el.height
      intrinsicWidth  == el.naturalWidth
      intrinsicHeight == el.naturalHeight
      scaleX == DivInt(intrinsicWidth, displayWidth)
      scaleY == DivInt(intrinsicHeight, displayHeight)
  IN  [x      |-> MathRound(MulInt(rect.x, scaleX)),
       y      |-> MathRound(MulInt(rect.y, scaleY)),
       width  |-> MathRound(MulInt(rect.width, scaleX)),
       height |-> MathRound(MulInt(rect.height, scaleY))]

\* handleMouseUp that also discards a draft of exactly the minimum size
handleMouseUpRejectsMin ==
  /\ isEditorOpen
  /\ IF ~isDrawing \/ editorRect = Null \/ editorImageRef = Null
     THEN UNCHANGED ignoreRegions
     ELSE IF editorRect.width <= MinDragSize \/ editorRect.height <= MinDragSize
     THEN UNCHANGED ignoreRegions
     ELSE /\ Len(ignoreRegions) < MaxDrawn
          /\ ignoreRegions' =
               Append(ignoreRegions, MapToIntrinsic(editorRect, editorImageRef))
  /\ isDrawing' = FALSE
  /\ editorRect' = Null
  /\ startPos' = Null
  /\ UNCHANGED <<baseImage, compareImage, diffResult, isProcessing, threshold,
                 method, run, isEditorOpen, editorImageRef>>
  /\ UNCHANGED history
  /\ UNCHANGED cmpVars

\* handleMouseUp that puts the new region in front of the list
handleMouseUpPrepend ==
  /\ isEditorOpen
  /\ IF ~isDrawing \/ editorRect = Null \/ editorImageRef = Null
     THEN UNCHANGED ignoreRegions
     ELSE IF editorRect.width < MinDragSize \/ editorRect.height < MinDragSize
     THEN UNCHANGED ignoreRegions
     ELSE /\ Len(ignoreRegions) < MaxDrawn
          /\ ignoreRegions' =
               <<MapToIntrinsic(editorRect, editorImageRef)>> \o ignoreRegions
  /\ isDrawing' = FALSE
  /\ editorRect' = Null
  /\ startPos' = Null
  /\ UNCHANGED <<baseImage, compareImage, diffResult, isProcessing, threshold,
                 method, run, isEditorOpen, editorImageRef>>
  /\ UNCHANGED history
  /\ UNCHANGED cmpVars

\* handleMouseUp; the list is capped at MaxDrawn regions
handleMouseUp ==
  /\ isEditorOpen
  /\ IF ~isDrawing \/ editorRect = Null \/ editorImageRef = Null
     THEN UNCHANGED ignoreRegions
     ELSE IF editorRect.width < MinDragSize \/ editorRect.height < MinDragSize
     THEN UNCHANGED ignoreRegions
     ELSE /\ Len(ignoreRegions) < MaxDrawn
          /\ ignoreRegions' =
               Append(ignoreRegions, MapToIntrinsic(editorRect, editorImageRef))
  /\ isDrawing' = FALSE
  /\ editorRect' = Null
  /\ startPos' = Null
  /\ UNCHANGED <<baseImage, compareImage, diffResult, isProcessing, threshold,
                 method, run, isEditorOpen, editorImageRef>>
  /\ UNCHANGED history
  /\ UNCHANGED cmpVars

\* onMouseLeave of the drawing surface is bound to handleMouseUp
handleMouseLeave == handleMouseUp

\* the object handleDownloadReport serializes in the current state (the
\* timestamp is left out)
Report ==
  [diffPercentage      |-> diffResult.diffPercentage,
   isPassed            |-> diffResult.isPassed,
   threshold           |-> threshold,
   method              |-> method,
   ignoredRegionsCount |-> Len(ignoreRegions)]

\* handleDownloadReport and handleDownloadDiffImage: a file is offered for
\* download, no state is set
handleDownloadReport ==
  /\ diffResult # Null
  /\ UNCHANGED uiVars
  /\ UNCHANGED cmpVars

handleDownloadDiffImage ==
  /\ diffResult # Null
  /\ UNCHANGED uiVars
  /\ UNCHANGED cmpVars

\* runVisualTest up to its await: the button is enabled, the call captures
\* the state of the render it was created in
RunVisualTest ==
  /\ baseImage # Null
  /\ compareImage # Null
  /\ ~isProcessing
  /\ isProcessing' = TRUE
  /\ run' = [baseImage |-> baseImage, compareImage |-> compareImage,
             ignoreRegions |-> ignoreRegions, method |-> method,
             threshold |-> threshold]
  /\ UNCHANGED <<baseImage, compareImage, diffResult, threshold, method,
                 ignoreRegions>>
  /\ UNCHANGED editorVars
  /\ UNCHANGED history
  /\ UNCHANGED cmpVars

\* RunComplete reading the region list of the latest render
RunCompleteLiveRegions ==
  /\ run # Null
  /\ Loads(run.baseImage) /\ Loads(run.compareImage)
  /\ Len(history) < MaxHistory
  /\ LET img1   == run.baseImage
         img2   == run.compareImage
         width  == Max(img1.width, img2.width)
         height == Max(img1.height, img2.height)
         d1     == DrawImage(img1, width, height)
         d2     == DrawImage(img2, width, height)
         res    == compareImages(d1, d2, ignoreRegions, run.method)
     IN  /\ diffResult' =
           [diffPercentage |-> res.diffPercentage,
            diffImageUrl   |-> imageDataToDataUrl(res.diffImageData),
            isPassed       |-> isPassedOf(res.diffPercentage, run.threshold)]
         /\ history' =
              <<HistoryItem(res.diffPercentage,
                            isPassedOf(res.diffPercentage, run.threshold))>>
              \o history
  /\ isProcessing' = FALSE
  /\ run' = Null
  /\ UNCHANGED <<baseImage, compareImage, threshold, method, ignoreRegions>>
  /\ UNCHANGED editorVars
  /\ UNCHANGED cmpVars

\* runVisualTest after both images have loaded, up to the end of finally:
\* the result is stored and reported to the dashboard; the dashboard keeps
\* at most MaxHistory items in the sessions
RunComplete ==
  /\ run # Null
  /\ Loads(run.baseImage) /\ Loads(run.compareImage)
  /\ Len(history) < MaxHistory
  /\ LET img1   == run.baseImage
         img2   == run.compareImage
         width  == Max(img1.width, img2.width)
         height == Max(img1.height, img2.height)
         d1     == DrawImage(img1, width, height)
         d2     == DrawImage(img2, width, height)
         res    == compareImages(d1, d2, run.ignoreRegions, run.method)
     IN  /\ diffResult' =
           [diffPercentage |-> res.diffPercentage,
            diffImageUrl   |-> imageDataToDataUrl(res.diffImageData),
            isPassed       |-> isPassedOf(res.diffPercentage, run.threshold)]
         /\ history' =
              <<HistoryItem(res.diffPercentage,
                            isPassedOf(res.diffPercentage, run.threshold))>>
              \o history
  /\ isProcessing' = FALSE
  /\ run' = Null
  /\ UNCHANGED <<baseImage, compareImage, threshold, method, ignoreRegions>>
  /\ UNCHANGED editorVars
  /\ UNCHANGED cmpVars

\* RunFail with a catch block that clears the result
RunFailClearsResult ==
  /\ run # Null
  /\ Loads(run.baseImage) /\ Loads(run.compareImage)
  /\ isProcessing' = FALSE
  /\ run' = Null
  /\ diffResult' = Null
  /\ UNCHANGED <<baseImage, compareImage, threshold, method, ignoreRegions>>
  /\ UNCHANGED editorVars
  /\ UNCHANGED history
  /\ UNCHANGED cmpVars

\* runVisualTest when getContext('2d') returns null after both images have
\* loaded: throw, catch, finally
RunFail ==
  /\ run # Null
  /\ Loads(run.baseImage) /\ Loads(run.compareImage)
  /\ isProcessing' = FALSE
  /\ run' = Null
  /\ UNCHANGED <<baseImage, compareImage, diffResult, threshold, method,
                 ignoreRegions>>
  /\ UNCHANGED editorVars
  /\ UNCHANGED history
  /\ UNCHANGED cmpVars

Next ==
  \/ \E img \in BaseUploads : ReaderOnload("base", img)
  \/ \E img \in CompareUploads : ReaderOnload("compare", img)
  \/ \E t \in ThresholdChoices : SetThreshold(t)
  \/ \E m \in MethodChoices : SetMethod(m)
  \/ OpenEditor
  \/ CloseEditor
  \/ \E pt \in ClickPoints : handleMouseDown(pt[1], pt[2])
  \/ \E pt \in ClickPoints : handleMouseMove(pt[1], pt[2])
  \/ handleMouseUp
  \/ handleMouseLeave
  \/ ClearRegions
  \/ RunVisualTest
  \/ RunComplete
  \/ RunFail
  \/ handleDownloadReport
  \/ handleDownloadDiffImage

Spec == Init /\ [][Next]_vars

----------------------------------------------------------------------------
(* SpecRuns: the VisualTester component in sessions that upload images of  *)
(* several shapes and files that are no images, and leave the region       *)
(* editor closed                                                           *)

\* the files uploaded as baseline and as candidate
BaseRunUploads == {ImgHalf, ImgSheet}
CompareRunUploads == {ImgColumn, ImgSheetDot, Undecodable}

\* the slider positions of these sessions
RunThresholds == {InitialThreshold, MaxThreshold}

NextRuns ==
  \/ \E img \in BaseRunUploads : ReaderOnload("base", img)
  \/ \E img \in CompareRunUploads : ReaderOnload("compare", img)
  \/ \E t \in RunThresholds : SetThreshold(t)
  \/ \E m \in MethodChoices : SetMethod(m)
  \/ RunVisualTest
  \/ RunComplete
  \/ RunFail
  \/ handleDownloadReport
  \/ handleDownloadDiffImage

SpecRuns == Init /\ [][NextRuns]_vars

\* the load events of decodable images are delivered and the continuation
\* of an awaiting runVisualTest is scheduled
FairRuns == SpecRuns /\ WF_vars(RunFail \/ RunComplete)

----------------------------------------------------------------------------
(* SpecEditor: the region editor, open on a loaded baseline                *)

InitEditor ==
  /\ img1Data = ImgBlack
  /\ img2Data = ImgBlack
  /\ regionList = <<>>
  /\ cmpMethod = "PIXEL"
  /\ result = NoResult
  /\ calls = 0
  /\ \E el \in EditorLayouts :
        /\ baseImage = BlankImage(el.naturalWidth, el.naturalHeight, black)
        /\ editorImageRef = el
  /\ isEditorOpen = TRUE
  /\ compareImage = Null
  /\ diffResult = Null
  /\ isProcessing = FALSE
  /\ threshold = InitialThreshold
  /\ method = "PIXEL"
  /\ ignoreRegions = <<>>
  /\ run = Null
  /\ editorRect = Null
  /\ isDrawing = FALSE
  /\ startPos = Null
  /\ history = <<>>

NextEditor ==
  \/ \E x \in MouseXs(editorImageRef), y \in MouseYs(editorImageRef) :
        handleMouseDown(x, y)
  \/ \E x \in MouseXs(editorImageRef), y \in MouseYs(editorImageRef) :
        handleMouseMove(x, y)
  \/ handleMouseUp
  \/ handleMouseLeave
  \/ ClearRegions

SpecEditor == InitEditor /\ [][NextEditor]_vars

----------------------------------------------------------------------------
(* Properties of compareImages, checked under SpecCompare                  *)

Called == result # NoResult

\* the state right after the first invocation
FirstCall == calls = 1

PixelIndexes == 0..(img1Data.width * img1Data.height - 1)

\* the baseline and candidate pixel with index p
BasePixel(p) == PixelAt(img1Data.data, 4 * p)
CandPixel(p) == PixelAt(img2Data.data, 4 * p)

\* pixel p of the diff image; it is opaque red exactly when the pixel was
\* classified as differing (gray and faded pixels have equal or high green)
DiffPixel(p) == PixelAt(result.diffImageData.data, 4 * p)

\* pixel p lies in some rectangle of the list rs (half-open bounds)
Masked(rs, p) ==
  LET x == p % img1Data.width
      y == p \div img1Data.width
  IN  \E k \in 1..Len(rs) :
        /\ rs[k].x <= x /\ x < rs[k].x + rs[k].width
        /\ rs[k].y <= y /\ y < rs[k].y + rs[k].height

\* the pixels outside every region of the current region list
Unmasked == {p \in PixelIndexes : ~Masked(regionList, p)}

\* C1: identical baseline and candidate buffers give diffPercentage 0 under
\* every method and every region list
C1_IdenticalGivesZero ==
  (Called /\ img1Data = img2Data) => result.diffPercentage.num = 0

C1_Witness ==
  /\ Called /\ img1Data = img2Data
  /\ cmpMethod = "STRICT" /\ regionList = <<>> /\ BasePixel(0) = <<10, 10, 205, 128>>

\* C2: if every pixel ignored under the current list is ignored under a list
\* B, the diffPercentage under B is at most the current one (stated of the
\* first invocation's result; a later invocation returns the same, C10)
C2_Monotone ==
  FirstCall =>
    \A B \in RegionLists :
      (\A p \in PixelIndexes : Masked(regionList, p) => Masked(B, p))
        => PctLeq(compareImages(img1Data, img2Data, B, cmpMethod).diffPercentage,
                  result.diffPercentage)

C2_Witness ==
  /\ Called /\ img1Data.width = 2 /\ img1Data.height = 2
  /\ regionList = <<Region(1, 0, 1, 1)>>
  /\ result.diffPercentage.num = 200
  /\ compareImages(img1Data, img2Data, <<Region(1, 0, 1, 1), Region(0, 1, 2, 1)>>,
                   cmpMethod).diffPercentage.num = 0

\* the pixels the current method classifies as differing, among the unmasked
Differing == {p \in Unmasked : isDifferent(cmpMethod, BasePixel(p), CandPixel(p))}

\* C3: diffPercentage = differingPixels / (width * height) * 100 with
\* differingPixels the number of non-ignored differing pixels, so it lies in
\* [0, 100]
C3_PercentageOfAllPixels ==
  Called =>
    /\ result.diffPercentage.den = img1Data.width * img1Data.height
    /\ result.diffPercentage.num = 100 * Cardinality(Differing)
    /\ 0 <= result.diffPercentage.num
    /\ result.diffPercentage.num <= 100 * result.diffPercentage.den

C3_Witness ==
  /\ Called /\ img1Data.width = 2 /\ img1Data.height = 2
  /\ Cardinality(Unmasked) = 2 /\ Cardinality(Differing) = 1
  /\ \E p \in PixelIndexes \ Unmasked : BasePixel(p) # CandPixel(p)
  /\ result.diffPercentage = [num |-> 100, den |-> 4]

\* squared Euclidean length of the 4-channel delta of pixel p
DeltaSq(p) ==
  LET a == BasePixel(p)
      b == CandPixel(p)
  IN  (a[1] - b[1]) * (a[1] - b[1]) + (a[2] - b[2]) * (a[2] - b[2])
      + (a[3] - b[3]) * (a[3] - b[3]) + (a[4] - b[4]) * (a[4] - b[4])

\* C4: under PIXEL the differing pixels are exactly the non-ignored pixels
\* whose delta has squared length > 100; length exactly 10 is a match
C4_PixelThreshold ==
  (Called /\ cmpMethod = "PIXEL") =>
    /\ \A p \in Unmasked : (DiffPixel(p) = RedPixel) <=> (DeltaSq(p) > 100)
    /\ result.diffPercentage.num = 100 * Cardinality({p \in Unmasked : DeltaSq(p) > 100})

C4_Witness ==
  /\ Called /\ cmpMethod = "PIXEL" /\ Unmasked = {0}
  /\ DeltaSq(0) = 100 /\ CandPixel(0) = <<6, 8, 0, 255>>
  /\ result.diffPercentage.num = 0

\* C5: under STRICT the differing pixels are exactly the non-ignored pixels
\* with at least one of the four channels different
C5_StrictAnyChannel ==
  (Called /\ cmpMethod = "STRICT") =>
    /\ \A p \in Unmasked :
         (DiffPixel(p) = RedPixel) <=> (\E c \in 1..4 : BasePixel(p)[c] # CandPixel(p)[c])
    /\ result.diffPercentage.num =
         100 * Cardinality({p \in Unmasked :
                              \E c \in 1..4 : BasePixel(p)[c] # CandPixel(p)[c]})

C5_Witness ==
  /\ Called /\ cmpMethod = "STRICT" /\ Unmasked = {0}
  /\ BasePixel(0) = black /\ CandPixel(0) = <<0, 0, 0, 245>>
  /\ result.diffPercentage.num = 100

\* 1000 times the luma delta of pixel p, exact
LumaDelta1000(p) ==
  LET a == BasePixel(p)
      b == CandPixel(p)
  IN  299 * (a[1] - b[1]) + 587 * (a[2] - b[2]) + 114 * (a[3] - b[3])

\* C6: under LUMINANCE the differing pixels are exactly the non-ignored pixels
\* with |0.299 dr + 0.587 dg + 0.114 db| > 10, whatever their alpha
C6_LuminanceThreshold ==
  (Called /\ cmpMethod = "LUMINANCE") =>
    /\ \A p \in Unmasked :
         (DiffPixel(p) = RedPixel) <=> (Abs(LumaDelta1000(p)) > 10000)
    /\ result.diffPercentage.num =
         100 * Cardinality({p \in Unmasked : Abs(LumaDelta1000(p)) > 10000})

\* the set of regions of a list
RegionSet(rs) == {rs[k] : k \in 1..Len(rs)}

\* C7: a pixel is ignored iff it lies in at least one region (half-open
\* bounds); ignored pixels are painted as ignored and never counted; the
\* result does not depend on the order or multiplicity of the regions (the
\* comparison with the other lists is made once, after the first invocation)
C7_RegionUnion ==
  Called =>
    /\ \A p \in PixelIndexes :
         IF Masked(regionList, p)
         THEN DiffPixel(p) = GrayPixel(BasePixel(p))
         ELSE DiffPixel(p) = (IF p \in Differing THEN RedPixel
                              ELSE FadedPixel(BasePixel(p)))
    /\ Differing \subseteq Unmasked
    /\ result.diffPercentage.num = 100 * Cardinality(Differing)
    /\ FirstCall =>
       \A B \in RegionLists :
         RegionSet(B) = RegionSet(regionList)
           => compareImages(img1Data, img2Data, B, cmpMethod) = result

C7_Witness ==
  /\ Called /\ img1Data.width = 2 /\ img1Data.height = 2
  /\ regionList = <<Region(0, 0, 1, 2), Region(0, 1, 2, 1)>>
  /\ \A p \in PixelIndexes : BasePixel(p) # CandPixel(p)
  /\ Unmasked = {1}
  /\ result.diffPercentage = [num |-> 100, den |-> 4]
  /\ compareImages(img1Data, img2Data,
                   <<Region(0, 1, 2, 1), Region(0, 0, 1, 2)>>, cmpMethod) = result

\* C9: all-black against all-white with no regions gives 100 under PIXEL and
\* under STRICT
C9_MaxContrastGivesHundred ==
  ( /\ Called
    /\ regionList = <<>>
    /\ cmpMethod \in {"PIXEL", "STRICT"}
    /\ \A p \in PixelIndexes : BasePixel(p) = black /\ CandPixel(p) = white )
  => PctEq(result.diffPercentage, [num |-> 100, den |-> 1])

C9_Witness ==
  /\ Called /\ regionList = <<>> /\ cmpMethod = "PIXEL"
  /\ img1Data.width = 2 /\ img1Data.height = 2
  /\ \A p \in PixelIndexes : BasePixel(p) = black /\ CandPixel(p) = white
  /\ result.diffPercentage = [num |-> 400, den |-> 4]

Luma1000(px) == 299 * px[1] + 587 * px[2] + 114 * px[3]

\* C11: the diff image has the size of the inputs and every pixel is painted
\* by exactly one rule: ignored -> (g, g, g, 255) with g the baseline luma
\* rounded to a byte; differing and not ignored -> (255, 0, 0, 255); matching
\* and not ignored -> (0.1 c + 229.5 rounded to a byte per colour channel c,
\* 255); every alpha is 255
C11_DiffImagePainting ==
  Called =>
    /\ result.diffImageData.width = img1Data.width
    /\ result.diffImageData.height = img1Data.height
    /\ Len(result.diffImageData.data) = 4 * img1Data.width * img1Data.height
    /\ \A p \in PixelIndexes :
         LET d == DiffPixel(p)
             b == BasePixel(p)
         IN  /\ d[4] = 255
             /\ Masked(regionList, p) =>
                  /\ d[1] = d[2] /\ d[2] = d[3]
                  /\ Abs(1000 * d[1] - Luma1000(b)) <= 500
             /\ (~Masked(regionList, p) /\ p \in Differing) =>
                  (d[1] = 255 /\ d[2] = 0 /\ d[3] = 0)
             /\ (~Masked(regionList, p) /\ p \notin Differing) =>
                  \A c \in 1..3 : Abs(10 * d[c] - (b[c] + 2295)) <= 5

C11_Witness ==
  /\ Called /\ img1Data.width = 2 /\ img1Data.height = 2
  /\ regionList = <<Region(1, 0, 1, 1)>>
  /\ Differing = {0}
  /\ DiffPixel(0) = <<255, 0, 0, 255>>
  /\ DiffPixel(1) = <<0, 0, 0, 255>>
  /\ DiffPixel(2) = <<230, 230, 230, 255>>

\* the 2x2 case of C12: an all-black opaque baseline and a candidate that
\* differs from it in pixel (0, 0) only, which is opaque white
OneWhiteOfFour ==
  /\ img1Data.width = 2 /\ img1Data.height = 2
  /\ \A p \in PixelIndexes : BasePixel(p) = black
  /\ CandPixel(0) = white
  /\ \A p \in PixelIndexes \ {0} : CandPixel(p) = black

\* C12: for that pair with no regions under PIXEL, diffPercentage is 25 and
\* the verdict at the threshold 0.1 is a failure
C12_OneOfFourIsTwentyFive ==
  (Called /\ OneWhiteOfFour /\ regionList = <<>> /\ cmpMethod = "PIXEL") =>
    /\ PctEq(result.diffPercentage, [num |-> 25, den |-> 1])
    /\ ~isPassedOf(result.diffPercentage, InitialThreshold)

C12_Witness ==
  /\ Called /\ OneWhiteOfFour /\ regionList = <<>> /\ cmpMethod = "PIXEL"
  /\ result.diffPercentage = [num |-> 100, den |-> 4]
  /\ DiffPixel(0) = RedPixel

\* pixel p is (120, 120, 120) in the baseline and (121, 119, 120) in the
\* candidate, with the same alpha
GrayShiftPair(p) ==
  /\ BasePixel(p)[1] = 120 /\ BasePixel(p)[2] = 120 /\ BasePixel(p)[3] = 120
  /\ CandPixel(p)[1] = 121 /\ CandPixel(p)[2] = 119 /\ CandPixel(p)[3] = 120
  /\ BasePixel(p)[4] = CandPixel(p)[4]

\* C13: a non-ignored pixel (120,120,120) against (121,119,120) with equal
\* alpha matches under LUMINANCE and differs under STRICT
C13_MethodsDisagree ==
  Called =>
    \A p \in Unmasked :
      GrayShiftPair(p) =>
        /\ cmpMethod = "LUMINANCE" =>
             /\ DiffPixel(p) # RedPixel
             /\ PixelIndexes = {p} => result.diffPercentage.num = 0
        /\ cmpMethod = "STRICT" =>
             /\ DiffPixel(p) = RedPixel
             /\ PixelIndexes = {p} => result.diffPercentage.num = 100

C13_Witness ==
  /\ Called /\ cmpMethod = "LUMINANCE" /\ Unmasked = {0} /\ GrayShiftPair(0)
  /\ result.diffPercentage.num = 0
  /\ DiffPixel(0) = <<242, 242, 242, 255>>

----------------------------------------------------------------------------
(* Properties of the VisualTester component, checked under Spec            *)

\* a step that ends a run with a result (the test on run comes first so that
\* the comparison is only evaluated for the steps that end a run)
RunCompletes == run # Null /\ run' = Null /\ RunComplete

\* C8: the verdict a run stores is isPassed = (diffPercentage <= threshold)
\* for the threshold of the run, equality passing
C8_VerdictAtThreshold ==
  [][RunCompletes =>
       (diffResult'.isPassed <=>
          diffResult'.diffPercentage.num * 100
            <= run.threshold * diffResult'.diffPercentage.den)]_vars

C8_Witness ==
  /\ diffResult # Null /\ run = Null
  /\ threshold = 0
  /\ diffResult.diffPercentage.num = 0
  /\ diffResult.isPassed

\* C14: the region list is emptied whenever a new baseline finishes loading,
\* and is left as it is by the load of a candidate and by every step of a
\* comparison run
C14_BaselineLoadClears ==
  [][/\ (\E img \in BaseUploads : ReaderOnload("base", img))
          => ignoreRegions' = <<>>
     /\ (\E img \in CompareUploads : ReaderOnload("compare", img))
          => ignoreRegions' = ignoreRegions
     /\ (RunVisualTest \/ RunCompletes \/ RunFail)
          => ignoreRegions' = ignoreRegions]_vars

C14_Witness ==
  /\ run # Null /\ run.ignoreRegions = <<Region(1, 0, 1, 1)>>
  /\ ignoreRegions = <<>>
  /\ diffResult = Null /\ compareImage # Null
  /\ ~isEditorOpen /\ ~isDrawing

\* the step appends exactly one region at the end of the list
AppendsOne ==
  /\ Len(ignoreRegions') = Len(ignoreRegions) + 1
  /\ SubSeq(ignoreRegions', 1, Len(ignoreRegions)) = ignoreRegions

\* C15: the region list changes only by an add (a committed drag appends one
\* region at the end, the regions before it and their order stay) or by a
\* clear (the reset-all button, a baseline load); a comparison run, a
\* threshold change, a method change and the downloads leave it unchanged
C15_OnlyAddOrClear ==
  [][/\ ignoreRegions' # ignoreRegions =>
          \/ (handleMouseUp \/ handleMouseLeave) /\ AppendsOne
          \/ /\ ClearRegions \/ (\E img \in BaseUploads : ReaderOnload("base", img))
             /\ ignoreRegions' = <<>>
     /\ ( /\ handleMouseUp \/ handleMouseLeave
          /\ isDrawing /\ editorRect # Null
          /\ editorRect.width >= MinDragSize /\ editorRect.height >= MinDragSize )
          => AppendsOne
     /\ ( \/ RunVisualTest \/ RunCompletes \/ RunFail
          \/ \E t \in ThresholdChoices : SetThreshold(t)
          \/ \E m \in MethodChoices : SetMethod(m)
          \/ handleDownloadReport \/ handleDownloadDiffImage )
          => ignoreRegions' = ignoreRegions]_vars

C15_Witness ==
  /\ ignoreRegions = <<Region(1, 0, 1, 1), Region(0, 0, 1, 1)>>
  /\ diffResult # Null /\ run = Null
  /\ threshold = 0 /\ method = "STRICT"

\* C16: a run compares with the region list of the moment it started: the
\* call captures the list, the captured list does not change while the
\* images load, and it is the list compareImages is given, whatever has been
\* added to or cleared from the list meanwhile
C16_RunUsesListAtStart ==
  [][/\ RunVisualTest => run'.ignoreRegions = ignoreRegions
     /\ (run # Null /\ run' # Null) => run' = run
     /\ RunCompletes =>
          LET width  == Max(run.baseImage.width, run.compareImage.width)
              height == Max(run.baseImage.height, run.compareImage.height)
              res    == compareImages(DrawImage(run.baseImage, width, height),
                                      DrawImage(run.compareImage, width, height),
                                      run.ignoreRegions, run.method)
          IN  /\ diffResult'.diffPercentage = res.diffPercentage
              /\ diffResult'.diffImageUrl = res.diffImageData]_vars

C16_Witness ==
  /\ diffResult # Null /\ run = Null
  /\ diffResult.diffPercentage = [num |-> 0, den |-> 2]
  /\ ignoreRegions = <<Region(0, 0, 1, 1)>>
  /\ compareImages(DrawImage(baseImage, 2, 1), DrawImage(compareImage, 2, 1),
                   ignoreRegions, method).diffPercentage.num = 100

----------------------------------------------------------------------------
(* Properties of the region editor, checked under SpecEditor               *)

\* the regions of the list
Regions == {ignoreRegions[k] : k \in 1..Len(ignoreRegions)}

\* C17: every region a committed drag adds lies inside the pixel grid of the
\* baseline: x >= 0, y >= 0, x + width <= intrinsicWidth and
\* y + height <= intrinsicHeight
C17_RegionsInsideImage ==
  \A r \in Regions :
    /\ r.x >= 0 /\ r.y >= 0
    /\ r.x + r.width <= baseImage.width
    /\ r.y + r.height <= baseImage.height

\* C18: no region of the list has a width or a height that is not positive
C18_RegionsPositive ==
  \A r \in Regions : r.width > 0 /\ r.height > 0

\* a step that commits the draft rectangle
Commits ==
  /\ handleMouseUp \/ handleMouseLeave
  /\ Len(ignoreRegions') = Len(ignoreRegions) + 1

\* c * intrinsic / display rounded to the nearest integer, a half rounding
\* up, in exact arithmetic
ScaledRound(c, intrinsic, display) ==
  (2 * c * intrinsic + display) \div (2 * display)

\* C19: a committed draft {x, y, width, height} is added as
\* {round(x * scaleX), round(y * scaleY), round(width * scaleX),
\* round(height * scaleY)} with scaleX = intrinsicWidth / displayWidth and
\* scaleY = intrinsicHeight / displayHeight, each component within one pixel
\* of the scaled display coordinate; with equal display and intrinsic sizes
\* the draft is added as it is
C19_ScaledAndRounded ==
  [][Commits =>
       LET el == editorImageRef
           r  == editorRect
           n  == ignoreRegions'[Len(ignoreRegions')]
       IN  /\ n.x = ScaledRound(r.x, el.naturalWidth, el.width)
           /\ n.y = ScaledRound(r.y, el.naturalHeight, el.height)
           /\ n.width = ScaledRound(r.width, el.naturalWidth, el.width)
           /\ n.height = ScaledRound(r.height, el.naturalHeight, el.height)
           /\ Abs(n.x * el.width - r.x * el.naturalWidth) <= el.width
           /\ Abs(n.y * el.height - r.y * el.naturalHeight) <= el.height
           /\ Abs(n.width * el.width - r.width * el.naturalWidth) <= el.width
           /\ Abs(n.height * el.height - r.height * el.naturalHeight) <= el.height
           /\ (el.width = el.naturalWidth /\ el.height = el.naturalHeight)
                => n = r]_vars

C19_Witness ==
  /\ editorImageRef = ImgElement(9, 7, 6, 5)
  /\ ignoreRegions = <<Region(2, 0, 8, 7)>>
  /\ ~isDrawing /\ editorRect = Null

\* C20: releasing a draft narrower or lower than 5 display pixels adds no
\* region, leaves the list as it is and resets the drawing state; a draft of
\* exactly 5 by 5 is accepted
C20_SmallDraftDiscarded ==
  [][((handleMouseUp \/ handleMouseLeave) /\ isDrawing /\ editorRect # Null) =>
       /\ (editorRect.width < 5 \/ editorRect.height < 5) =>
            /\ ignoreRegions' = ignoreRegions
            /\ isDrawing' = FALSE /\ editorRect' = Null /\ startPos' = Null
       /\ (editorRect.width = 5 /\ editorRect.height = 5) =>
            /\ Len(ignoreRegions') = Len(ignoreRegions) + 1
            /\ isDrawing' = FALSE /\ editorRect' = Null /\ startPos' = Null]_vars

C20_Witness ==
  /\ editorImageRef = ImgElement(6, 6, 6, 6)
  /\ ignoreRegions = <<Region(0, 0, 5, 5)>>
  /\ isDrawing /\ editorRect # Null
  /\ editorRect.width = 4 /\ editorRect.height = 5

----------------------------------------------------------------------------
(* Properties of compareImages on buffers of different size, checked under *)
(* SpecMismatch                                                            *)

DimensionMismatch ==
  img1Data.width # img2Data.width \/ img1Data.height # img2Data.height

\* C21: a call of compareImages on a baseline and a candidate whose widths
\* or heights differ is rejected: it produces no DiffResult
C21_MismatchRejected ==
  DimensionMismatch => result = NoResult

----------------------------------------------------------------------------
(* Further properties of compareImages, checked under SpecCompare          *)

\* every pixel outside the regions differs, and there is such a pixel
AllComparedDiffer == Called /\ Unmasked # {} /\ Differing = Unmasked

Hundred == [num |-> 100, den |-> 1]

\* C23 as stated: when every non-ignored pixel differs and at least one pixel
\* is not ignored, diffPercentage is 100 however much of the image is ignored
C23_ShareOfCompared ==
  AllComparedDiffer => PctEq(result.diffPercentage, Hundred)

\* C23: diffPercentage is the share of all pixels of the image, ignored ones
\* included, that are not ignored and differ: when every non-ignored pixel
\* differs it is 100 * (non-ignored pixels) / (width * height), which is 100
\* only if no pixel is ignored
C23_ShareOfAllPixels ==
  AllComparedDiffer =>
    /\ PctEq(result.diffPercentage,
             [num |-> 100 * Cardinality(Unmasked), den |-> Cardinality(PixelIndexes)])
    /\ PctEq(result.diffPercentage, Hundred) <=> Unmasked = PixelIndexes

\* half of a 2 x 2 image is ignored and both other pixels differ
C23_Witness ==
  /\ AllComparedDiffer
  /\ Cardinality(PixelIndexes) = 4
  /\ Cardinality(Unmasked) = 2
  /\ result.diffPercentage = [num |-> 200, den |-> 4]

\* the pixels of the diff image that are opaque red
RedPixels == {p \in PixelIndexes : DiffPixel(p) = RedPixel}

\* C24: in the diff image the number of pixels equal to (255, 0, 0, 255) is
\* the differing-pixel count that diffPercentage is computed from; the red
\* pixels are exactly the non-ignored differing ones, and no channel value of
\* a matching baseline pixel fades to 0, so no baseline value makes a
\* matching pixel red
C24_RedCountIsDiffCount ==
  Called =>
    /\ result.diffPercentage =
         Percentage(Cardinality(RedPixels), img1Data.width * img1Data.height)
    /\ RedPixels = Differing
    /\ FirstCall => \A c \in 0..255 : FadeChannel(c) >= 229

\* a 2 x 2 diff image with an ignored, a matching and a red pixel
C24_Witness ==
  /\ Called
  /\ Cardinality(PixelIndexes) = 4
  /\ Cardinality(RedPixels) = 1
  /\ \E p \in PixelIndexes : Masked(regionList, p)
  /\ \E p \in Unmasked : p \notin Differing

\* candidate pixels around the tolerances of PIXEL and LUMINANCE
ProbePixels ==
  { <<r, g, b, a>> : r \in {0, 6, 10, 18}, g \in {0, 8, 17, 18},
                     b \in {0, 10, 205}, a \in {255, 245, 244} }

\* differing under LUMINANCE implies differing under PIXEL implies differing
\* under STRICT
Ordered(p1, p2) ==
  /\ isDifferent("LUMINANCE", p1, p2) => isDifferent("PIXEL", p1, p2)
  /\ isDifferent("PIXEL", p1, p2) => isDifferent("STRICT", p1, p2)

DiffPercentageUnder(mth) ==
  compareImages(img1Data, img2Data, regionList, mth).diffPercentage

\* C25: for every pixel pair, differing under LUMINANCE implies differing
\* under PIXEL, and differing under PIXEL implies differing under STRICT; so
\* for the same images and regions diffPercentage(LUMINANCE) <=
\* diffPercentage(PIXEL) <= diffPercentage(STRICT)
C25_MethodsOrdered ==
  FirstCall =>
    /\ \A p \in PixelIndexes : Ordered(BasePixel(p), CandPixel(p))
    /\ (Cardinality(PixelIndexes) = 1 /\ regionList = <<>>) =>
          \A p2 \in ProbePixels : Ordered(BasePixel(0), p2)
    /\ PctLeq(DiffPercentageUnder("LUMINANCE"), DiffPercentageUnder("PIXEL"))
    /\ PctLeq(DiffPercentageUnder("PIXEL"), DiffPercentageUnder("STRICT"))

\* the candidate differs in alpha only, by 11: LUMINANCE does not see the
\* difference, PIXEL and STRICT do
C25_Witness ==
  /\ FirstCall
  /\ BasePixel(0) = black /\ CandPixel(0) = <<0, 0, 0, 244>>
  /\ regionList = <<>>
  /\ cmpMethod = "PIXEL"
  /\ DiffPercentageUnder("LUMINANCE").num = 0
  /\ result.diffPercentage.num = 100
  /\ DiffPercentageUnder("STRICT").num = 100

----------------------------------------------------------------------------
(* Properties of the comparison runs, checked under SpecRuns and FairRuns  *)

RunStarts == run = Null /\ run' # Null
RunEnds == run # Null /\ run' = Null

\* C22: a run that ends without completing (the exception is thrown before
\* the result is stored) leaves diffResult and the history as they were and
\* sets isProcessing to false; and from its start to its end the run itself
\* stores nothing: diffResult changes only by an upload clearing it
C22_FailedRunStoresNothing ==
  [][ /\ RunStarts => diffResult' = diffResult /\ history' = history
      /\ (run # Null /\ run' = run) =>
            /\ diffResult' = diffResult \/ diffResult' = Null
            /\ history' = history
      /\ (RunEnds /\ ~RunComplete) =>
            /\ diffResult' = diffResult
            /\ history' = history
            /\ isProcessing' = FALSE ]_vars

\* a run whose images have loaded is in flight while the result of an
\* earlier run is shown: it can only fail, the history is full
C22_Witness ==
  /\ run # Null /\ isProcessing
  /\ Loads(run.baseImage) /\ Loads(run.compareImage)
  /\ diffResult # Null
  /\ Len(history) = MaxHistory

\* C26: the report that handleDownloadReport offers is consistent with the
\* run that computed its diffPercentage: when that run stores its result the
\* report carries the threshold, the method and the number of regions the run
\* used, it stays the same until another run ends, and so its verdict is the
\* comparison of its diffPercentage with its threshold
C26_ReportMatchesRun ==
  /\ [](diffResult # Null =>
          (Report.isPassed <=> isPassedOf(Report.diffPercentage, Report.threshold)))
  /\ [][ /\ RunCompletes =>
               /\ Report'.threshold = run.threshold
               /\ Report'.method = run.method
               /\ Report'.ignoredRegionsCount = Len(run.ignoreRegions)
         /\ (diffResult # Null /\ diffResult' # Null /\ ~RunEnds) =>
               Report' = Report ]_vars

\* the VisualDiffResult a run on these images and settings stores
ResultOf(img1, img2, regions, mth, thr) ==
  LET width  == Max(img1.width, img2.width)
      height == Max(img1.height, img2.height)
      res    == compareImages(DrawImage(img1, width, height),
                              DrawImage(img2, width, height), regions, mth)
  IN  [diffPercentage |-> res.diffPercentage,
       diffImageUrl   |-> imageDataToDataUrl(res.diffImageData),
       isPassed       |-> isPassedOf(res.diffPercentage, thr)]

\* C27: a diffResult that is present was computed from the baseline and the
\* candidate that are loaded now, under some method and threshold (the
\* sessions draw no regions)
C27_ResultOfLoadedImages ==
  diffResult # Null =>
    /\ baseImage # Null /\ Loads(baseImage)
    /\ compareImage # Null /\ Loads(compareImage)
    /\ \E m \in MethodChoices, t \in RunThresholds :
          diffResult = ResultOf(baseImage, compareImage, ignoreRegions, m, t)

\* C28: every run that sets isProcessing to true eventually sets it back to
\* false, also when one of its two images never fires its load event
C28_RunsEnd == isProcessing ~> ~isProcessing

\* C30: the two buffers a run passes to compareImages have the same size,
\* width max(w1, w2) and height max(h1, h2) of the two loaded images, and
\* the stored result is the comparison of these two buffers
C30_BuffersOfCommonSize ==
  [][ RunCompletes =>
        LET img1   == run.baseImage
            img2   == run.compareImage
            width  == Max(img1.width, img2.width)
            height == Max(img1.height, img2.height)
            d1     == DrawImage(img1, width, height)
            d2     == DrawImage(img2, width, height)
        IN  /\ d1.width = width /\ d2.width = width
            /\ d1.height = height /\ d2.height = height
            /\ Len(d1.data) = 4 * width * height
            /\ Len(d2.data) = 4 * width * height
            /\ diffResult'.diffImageUrl.width = width
            /\ diffResult'.diffImageUrl.height = height
            /\ diffResult'.diffPercentage =
                 compareImages(d1, d2, run.ignoreRegions, run.method).diffPercentage
    ]_vars

\* the result of a run on a 2 x 1 baseline and a 1 x 2 candidate: the canvas
\* takes its width from the one and its height from the other
C30_Witness ==
  /\ diffResult # Null
  /\ baseImage = ImgHalf /\ compareImage = ImgColumn
  /\ diffResult.diffImageUrl.width = 2 /\ diffResult.diffImageUrl.height = 2
  /\ history # <<>>

----------------------------------------------------------------------------
(* The drawing session, checked under SpecEditor                           *)

\* the point lies on the displayed image, its edges included
OnImage(x, y) ==
  /\ 0 <= x /\ x <= editorImageRef.width
  /\ 0 <= y /\ y <= editorImageRef.height

\* the draft rectangle lies within [0, displayWidth] x [0, displayHeight]
DraftInside ==
  /\ editorRect # Null
  /\ editorRect.width >= 0 /\ editorRect.height >= 0
  /\ OnImage(editorRect.x, editorRect.y)
  /\ OnImage(editorRect.x + editorRect.width, editorRect.y + editorRect.height)

Idle == ~isDrawing /\ editorRect = Null /\ startPos = Null

\* C29: a drawing starts only by a mouse-down on the displayed image, with
\* an empty draft at the pointer, and a mouse-down outside it changes
\* nothing; a mouse-move while not drawing leaves the draft and the region
\* list unchanged; while drawing, the draft rectangle stays within
\* [0, displayWidth] x [0, displayHeight]; after a mouse-up or a mouse-leave
\* the session is idle
C29_DrawingCycle ==
  /\ [](isDrawing => DraftInside)
  /\ [][ /\ (startPos' # startPos /\ startPos' # Null) =>
               /\ OnImage(startPos'.x, startPos'.y)
               /\ isDrawing'
               /\ editorRect' = [x |-> startPos'.x, y |-> startPos'.y,
                                  width |-> 0, height |-> 0]
         /\ \A x \in MouseXs(editorImageRef), y \in MouseYs(editorImageRef) :
               /\ (~OnImage(x, y) /\ handleMouseDown(x, y)) =>
                     UNCHANGED <<drawVars, ignoreRegions>>
               /\ (~isDrawing /\ handleMouseMove(x, y)) =>
                     UNCHANGED <<editorRect, ignoreRegions>>
         /\ (handleMouseUp \/ handleMouseLeave) => Idle' ]_vars

\* a drag from the top left corner whose pointer left the image at the
\* bottom right: the draft covers the whole displayed image
C29_Witness ==
  /\ isDrawing
  /\ startPos = [x |-> 0, y |-> 0]
  /\ editorRect = [x |-> 0, y |-> 0, width |-> editorImageRef.width,
                   height |-> editorImageRef.height]

====
